---- MODULE Spec2Model ----
(***************************************************************************)
(* multipart_form_data::downloader (src/src/multipart_form_data/           *)
(* downloader.hpp): the incremental multipart/form-data parser, its file   *)
(* sink and the two entry points sync_download / async_download.           *)
(*                                                                         *)
(* Bytes are one-character strings, byte strings are sequences of them.    *)
(* Positions are 1-based; 0 stands for std::string::npos.                  *)
(***************************************************************************)
EXTENDS Integers, Sequences, FiniteSets, TLC

(* ------------------------------ bounds -------------------------------- *)
\* longest part body of the single-part bodies
MaxData == 21
\* longest body of each part of the two-part bodies
MaxData2 == 1
\* the read_some calls are counted up to this number
MaxReads == 2
\* largest number of numbered copies a(1), a(2), ... that exist beforehand
MaxCopies == 10
\* the most body bytes the caller has read into its buffer with the headers
MaxLeftover == 22
\* largest number of files a.t, a(1).t, ... two threads find in the directory
MaxThreadCopies == 4
\* the steps of a download are recorded up to this number
MaxTrace == 40

(* ------------------------------ bytes --------------------------------- *)
CR == "\r"
LF == "\n"
CRLF == <<CR, LF>>
DASHES == <<"-", "-">>
QUOTE == "\""
\* "\r\n\r\n", the delimiter of the header reads
HEADER_END == <<CR, LF, CR, LF>>
\* "--\r\n", what follows the boundary that closes the last part
EPILOGUE == <<"-", "-", CR, LF>>
\* "filename=\""
FILENAME_TOKEN == <<"f", "i", "l", "e", "n", "a", "m", "e", "=", QUOTE>>
\* "multipart/form-data"
MULTIPART == <<"m", "u", "l", "t", "i", "p", "a", "r", "t", "/",
               "f", "o", "r", "m", "-", "d", "a", "t", "a">>
\* "boundary="
BOUNDARY_TOKEN == <<"b", "o", "u", "n", "d", "a", "r", "y", "=">>

(* --------------------------- string helpers --------------------------- *)
Min(a, b) == IF a < b THEN a ELSE b

\* std::string_view::find: the first position of needle in hay, 0 when absent
Find(hay, needle) ==
    LET hits == {i \in 1..(Len(hay) - Len(needle) + 1) :
                    SubSeq(hay, i, i + Len(needle) - 1) = needle}
    IN  IF hits = {} THEN 0 ELSE CHOOSE i \in hits : \A j \in hits : i <= j

\* std::string_view::rfind(char): the last position of byte c in hay, 0 when absent
RFind(hay, c) ==
    LET hits == {i \in 1..Len(hay) : hay[i] = c}
    IN  IF hits = {} THEN 0 ELSE CHOOSE i \in hits : \A j \in hits : i >= j

\* the bytes of s from position i (1-based) to the end: substr / remove_prefix
From(s, i) == SubSeq(s, i, Len(s))

\* the first n bytes of s
Take(s, n) == SubSeq(s, 1, n)

\* s without its first n bytes (n may exceed the length): std::string::erase(0, n)
Drop(s, n) == SubSeq(s, n + 1, Len(s))

\* n copies of byte c
Fill(c, n) == [i \in 1..n |-> c]

(* ------------------------------- paths -------------------------------- *)
\* the directories of the file system; every other directory is missing
Dirs == {<<".">>}

\* std::filesystem::path::operator/ : an absolute right side replaces the left
PathJoin(dir, name) ==
    IF name # <<>> /\ name[1] = "/" THEN name
    ELSE IF dir = <<>> THEN name
    ELSE dir \o <<"/">> \o name

\* path::parent_path as the open() call resolves it (no separator: ".")
ParentPath(path) ==
    LET slash == RFind(path, "/")
    IN  IF slash = 0 THEN <<".">> ELSE Take(path, slash - 1)

\* path::filename: what follows the last separator
FileName(path) == From(path, RFind(path, "/") + 1)

\* path::extension: from the rightmost period of the filename, unless the
\* filename is "." or ".." or its only period is its first byte
Extension(path) ==
    LET name == FileName(path)
        dot  == RFind(name, ".")
    IN  IF name = <<".">> \/ name = <<".", ".">> \/ dot <= 1 THEN <<>>
        ELSE From(name, dot)

\* path::stem: the filename without its extension
Stem(path) ==
    LET name == FileName(path)
    IN  Take(name, Len(name) - Len(Extension(path)))

\* path::replace_filename
ReplaceFilename(path, name) == Take(path, RFind(path, "/")) \o name

Digit(d) == <<"0", "1", "2", "3", "4", "5", "6", "7", "8", "9">>[d + 1]

\* std::to_string(size_t)
RECURSIVE to_string(_)
to_string(n) ==
    IF n < 10 THEN <<Digit(n)>> ELSE to_string(n \div 10) \o <<Digit(n % 10)>>

\* std::string::replace(pos, count, str), pos 0-based as in the source
StringReplace(s, pos, count, str) == Take(s, pos) \o str \o Drop(s, pos + count)

\* std::filesystem::exists on a file system holding the paths in files
Exists(path, files) == path \in files \/ path \in Dirs

\* the loop of generate_file_path with a replace of one digit only (mutant)
RECURSIVE GenerateLoop_OneDigit(_, _, _, _, _)
GenerateLoop_OneDigit(path, new_file_name, copy_number, copy_number_start_position, files) ==
    IF Exists(path, files)
    THEN LET next_name == StringReplace(new_file_name,
                                        copy_number_start_position, 1,
                                        to_string(copy_number + 1))
         IN  GenerateLoop_OneDigit(
                 ReplaceFilename(path, next_name \o Extension(path)),
                 next_name, copy_number + 1, copy_number_start_position, files)
    ELSE path

\* the while loop of generate_file_path: as long as the path exists, the
\* digits between the parentheses are replaced by the next copy number
RECURSIVE GenerateLoop(_, _, _, _, _)
GenerateLoop(path, new_file_name, copy_number, copy_number_start_position, files) ==
    IF Exists(path, files)
    THEN LET next_name == StringReplace(
                              new_file_name,
                              copy_number_start_position,
                              Len(new_file_name) - copy_number_start_position - 1,
                              to_string(copy_number + 1))
         IN  GenerateLoop(ReplaceFilename(path, next_name \o Extension(path)),
                          next_name, copy_number + 1,
                          copy_number_start_position, files)
    ELSE path

\* generate_file_path: the value left in _file_path when no call throws
GenerateFilePath(output_directory, file_name, files) ==
    LET path == PathJoin(output_directory, file_name)
    IN  IF Exists(path, files)
        THEN LET new_file_name == Stem(path) \o <<"(", "1", ")">>
             IN  GenerateLoop(ReplaceFilename(path, new_file_name \o Extension(path)),
                              new_file_name, 1, Len(new_file_name) - 2, files)
        ELSE path

(* ------------------------------ the wire ------------------------------ *)
\* one part of a body: the name the header carries, the header line, the data
Part(name, c, n) ==
    [file_name |-> name,
     header    |-> FILENAME_TOKEN \o name \o <<QUOTE>>,
     data      |-> Fill(c, n)]

\* a part on the wire: delimiter line, header block, data, CRLF
PartBytes(X, part) ==
    DASHES \o X \o CRLF \o part.header \o HEADER_END \o part.data \o CRLF

\* a well-formed body: the parts, then the closing delimiter "--X--\r\n"
RECURSIVE PartsBytes(_, _)
PartsBytes(X, parts) ==
    IF parts = <<>> THEN <<>>
    ELSE PartBytes(X, Head(parts)) \o PartsBytes(X, Tail(parts))

BodyBytes(X, parts) == PartsBytes(X, parts) \o DASHES \o X \o EPILOGUE

(* ------------------------- dynamic_string_buffer ---------------------- *)
\* dynamic_string_buffer::size: the string's length, capped by max_size
BufferSize(storage, max_size) == Min(Len(storage), max_size)

\* dynamic_string_buffer::consume(n): erase(0, min(n, size())); a count that
\* wrapped below zero is a huge size_t and erases all of size()
Consume(storage, n, max_size) ==
    LET size == BufferSize(storage, max_size)
    IN  Drop(storage, IF n < 0 \/ n > size THEN size ELSE n)

\* (mutant: a full buffer without the delimiter ends the read as a match)
ReadUntilCheck_FullIsMatch(storage, max_size, delimiter) ==
    LET size     == BufferSize(storage, max_size)
        position == Find(Take(storage, size), delimiter)
    IN  IF position # 0
        THEN [state |-> "match", bytes |-> position + Len(delimiter) - 1]
        ELSE IF size = max_size
        THEN [state |-> "match", bytes |-> size]
        ELSE [state |-> "more", bytes |-> 0]

\* one pass of the loop of boost::asio::read_until over the buffered bytes:
\* a match ends the read with the bytes up to the end of the delimiter, a full
\* buffer ends it with not_found, otherwise read_some is called
ReadUntilCheck(storage, max_size, delimiter) ==
    LET size     == BufferSize(storage, max_size)
        position == Find(Take(storage, size), delimiter)
    IN  IF position # 0
        THEN [state |-> "match", bytes |-> position + Len(delimiter) - 1]
        ELSE IF size = max_size
        THEN [state |-> "full", bytes |-> 0]
        ELSE [state |-> "more", bytes |-> 0]

(* ------------------------------ the sink ------------------------------ *)
\* std::ofstream::open(path, std::ios::binary) succeeds: no file is open on
\* the stream object, the directory exists, the path is no directory
CanOpen(file, path) ==
    /\ ~file.is_open
    /\ ParentPath(path) \in Dirs
    /\ path \notin Dirs

\* what _file.write(data, n) can append: the first n buffered bytes; a count
\* that wrapped below zero makes the call undefined (nothing, or all of the
\* buffer and what lies behind it)
WriteOutcomes(storage, n) ==
    IF n >= 0 THEN {Take(storage, Min(n, Len(storage)))} ELSE {<<>>, storage}

\* the file system after bytes are appended to the open file
Written(files, file, bytes) ==
    IF file.is_open /\ file.path \in DOMAIN files
    THEN [files EXCEPT ![file.path] = @ \o bytes]
    ELSE files

\* the file system after path is created empty, or truncated when it exists
Truncated(files, path) ==
    [p \in DOMAIN files \cup {path} |-> IF p = path THEN <<>> ELSE files[p]]

\* the file system after std::filesystem::remove(path)
Removed(files, path) == [p \in DOMAIN files \ {path} |-> files[p]]

(* ------------------------------ the inputs ---------------------------- *)
\* packets_size of the settings the downloads run with: the smallest buffer
\* that holds the header block of a part named a.t
PacketSize == 20

\* the boundary the sender separates the parts with
BOUNDARY_X == <<"B", "Z">>
NAME_A == <<"a", ".", "t">>
NAME_B == <<"b", ".", "t">>
OUTPUT_DIRECTORY == <<".">>
\* what a header-seen callback of kind "fixed" returns for every part
FIXED_PATH == <<".", "/", "u">>
\* what a header-seen callback of kind "missing" returns: no such directory
MISSING_PATH == <<"n", "/", "u">>
\* the bytes of every file that exists before the download
OLD == <<"o">>

TEXT_PLAIN == <<"t", "e", "x", "t", "/", "p", "l", "a", "i", "n">>
\* "multipart/form-data; boundary=BZ"
CT_BOUNDARY_LAST == MULTIPART \o <<";", " ">> \o BOUNDARY_TOKEN \o BOUNDARY_X
\* "multipart/form-data; boundary=BZ; q"
CT_BOUNDARY_MIDDLE == CT_BOUNDARY_LAST \o <<";", " ", "q">>
\* "boundary=BZ; multipart/form-data"
CT_BOUNDARY_FIRST == BOUNDARY_TOKEN \o BOUNDARY_X \o <<";", " ">> \o MULTIPART
\* "text/plain; boundary=BZ"
CT_PLAIN_BOUNDARY == TEXT_PLAIN \o <<";", " ">> \o BOUNDARY_TOKEN \o BOUNDARY_X

\* a boundary of packets_size bytes that begins with "--", and the content
\* type that names it: "multipart/form-data; boundary=--BB...B"
LONG_BOUNDARY == DASHES \o Fill("B", PacketSize - 2)
CT_LONG_BOUNDARY == MULTIPART \o <<";", " ">> \o BOUNDARY_TOKEN \o LONG_BOUNDARY

\* the k-th numbered copy of ./a.t
CopyPath(k) ==
    PathJoin(OUTPUT_DIRECTORY, <<"a", "(">> \o to_string(k) \o <<")", ".", "t">>)

\* ./a.t and its first k - 1 numbered copies
Copies(k) ==
    IF k = 0 THEN {}
    ELSE {PathJoin(OUTPUT_DIRECTORY, NAME_A)} \cup {CopyPath(j) : j \in 1..(k - 1)}

Modes == {"sync", "async"}
HeaderHandlers == {"none", "empty", "fixed", "missing"}

\* one download: the arguments of the call, the settings, the bytes the peer
\* sends, what the stream and the file system may do
BaseScenario ==
    [mode           |-> "sync",
     content_type   |-> CT_BOUNDARY_LAST,
     boundary       |-> BOUNDARY_X,
     packets_size   |-> PacketSize,
     parts          |-> <<Part(NAME_A, "x", 1)>>,
     leftover       |-> 0,
     header_handler |-> "none",
     body_handler   |-> FALSE,
     files          |-> {},
     faults         |-> {},
     exists_throws  |-> FALSE,
     remove_throws  |-> FALSE,
     chunk          |-> PacketSize,
     fault_left     |-> -1,
     wrapped_write  |-> "any"]

\* the error the scenario's stream may end a read with before the peer has
\* sent everything: the timeout exists in async mode only
Faults(m) == IF m = "async" THEN {"timed_out"} ELSE {"connection_reset"}

\* one part of every length up to MaxData: bodies below and above packets_size
SinglePartScenarios ==
    {[BaseScenario EXCEPT !.mode = m, !.parts = <<Part(NAME_A, "x", d)>>] :
        m \in Modes, d \in 0..MaxData}

\* one part written in two forced flushes that end exactly at its last byte
LongPartScenarios ==
    {[BaseScenario EXCEPT
        !.mode = m,
        !.parts = <<Part(NAME_A, "x", 2 * (PacketSize - Len(BOUNDARY_X)))>>] :
        m \in Modes}

\* such a part followed by a short one
LongFirstPartScenarios ==
    {[BaseScenario EXCEPT
        !.mode = m,
        !.parts = <<Part(NAME_A, "x", 2 * (PacketSize - Len(BOUNDARY_X))),
                    Part(NAME_B, "y", 1)>>] :
        m \in Modes}

\* two parts on a stream that may fail, without a header-seen callback or
\* with one that returns the empty path; the removal of a file may fail
TwoPartScenarios ==
    {[BaseScenario EXCEPT
        !.mode = m,
        !.parts = <<Part(NAME_A, "x", d), Part(n, "y", d)>>,
        !.header_handler = h,
        !.body_handler = (h = "empty"),
        !.faults = Faults(m),
        !.remove_throws = r] :
        m \in Modes, d \in 1..MaxData2, n \in {NAME_A, NAME_B},
        h \in {"none", "empty"}, r \in BOOLEAN}

\* two parts on a stream that may fail, with a header-seen callback that
\* returns one path for every part (free, or taken by an older file) or a
\* path in a directory that does not exist
CallbackScenarios ==
    {[BaseScenario EXCEPT
        !.mode = m,
        !.parts = <<Part(NAME_A, "x", d), Part(NAME_B, "y", d)>>,
        !.header_handler = hf[1],
        !.files = hf[2],
        !.faults = Faults(m)] :
        m \in Modes, d \in 1..MaxData2,
        hf \in {<<"fixed", {}>>, <<"fixed", {FIXED_PATH}>>, <<"missing", {}>>}}

\* two parts named a.t into a directory that holds a.t and numbered copies
CollisionScenarios ==
    {[BaseScenario EXCEPT
        !.mode = m,
        !.parts = <<Part(NAME_A, "x", 1), Part(NAME_A, "y", 1)>>,
        !.header_handler = h,
        !.files = Copies(k)] :
        m \in Modes, h \in {"none", "empty"}, k \in 0..(MaxCopies + 1)}

\* a file system on which std::filesystem::exists throws
FileSystemErrorScenarios ==
    {[BaseScenario EXCEPT !.mode = m, !.header_handler = h,
                          !.exists_throws = TRUE] :
        m \in Modes, h \in {"none", "empty"}}

\* the content types: no multipart, no boundary, boundary last, first, middle
ContentTypeScenarios ==
    {[BaseScenario EXCEPT !.mode = m, !.content_type = ct] :
        m \in Modes,
        ct \in {TEXT_PLAIN, CT_PLAIN_BOUNDARY, MULTIPART, CT_BOUNDARY_MIDDLE,
                CT_BOUNDARY_FIRST}}

\* a file name with a double quote in it
NAME_Q == <<"a", QUOTE, "b">>

\* a part whose header block is header and whose file name, if the block has
\* one, is name
PartWithHeader(name, header) ==
    [file_name |-> name, header |-> header, data |-> <<"z">>]

\* header blocks: name="a" without the filename token; filename="a.t without
\* a closing quote; filename="a"b"; x filename="a"; filename="a";z
HeaderVariants ==
    {PartWithHeader(<<>>, <<"n", "a", "m", "e", "=", QUOTE, "a", QUOTE>>),
     PartWithHeader(<<>>, FILENAME_TOKEN \o NAME_A),
     PartWithHeader(NAME_Q, FILENAME_TOKEN \o NAME_Q \o <<QUOTE>>),
     PartWithHeader(<<"a">>, <<"x", " ">> \o FILENAME_TOKEN \o <<"a", QUOTE>>),
     PartWithHeader(<<"a">>, FILENAME_TOKEN \o <<"a", QUOTE, ";", "z">>)}

\* two parts, one of them with one of these header blocks, before or after
\* a part named b.t
HeaderScenarios ==
    {[BaseScenario EXCEPT !.mode = m, !.parts = parts, !.header_handler = h] :
        m \in Modes, h \in {"none", "empty"},
        parts \in {<<v, Part(NAME_B, "y", 1)>> : v \in HeaderVariants}
                  \cup {<<Part(NAME_B, "y", 1), v>> : v \in HeaderVariants}}

\* the caller's buffer holds the first bytes of the body, fewer or more than
\* packets_size
LeftoverScenarios ==
    {[BaseScenario EXCEPT !.mode = m, !.leftover = l] :
        m \in Modes, l \in 1..MaxLeftover}

\* the caller's buffer holds the whole body, with a part below and a part
\* above packets_size
SeededBodyScenarios ==
    {[BaseScenario EXCEPT
        !.mode = m,
        !.parts = <<Part(NAME_A, "x", d)>>,
        !.leftover = Len(BodyBytes(BOUNDARY_X, <<Part(NAME_A, "x", d)>>))] :
        m \in Modes, d \in {1, MaxData}}

\* packets_size below the smallest buffer that holds a header block
SmallPacketScenarios ==
    {[BaseScenario EXCEPT !.mode = m, !.packets_size = n] :
        m \in Modes, n \in 1..(PacketSize - 1)}

\* a boundary as long as packets_size: the stream begins with the boundary
\* itself, the header block fills the buffer, the part is longer than the
\* buffer
TightCapScenarios ==
    {[BaseScenario EXCEPT
        !.mode = m,
        !.content_type = CT_LONG_BOUNDARY,
        !.boundary = Drop(LONG_BOUNDARY, 2),
        !.parts = <<Part(NAME_A, "x", PacketSize + 1)>>] :
        m \in Modes}

Scenarios ==
    SinglePartScenarios \cup LongPartScenarios \cup TwoPartScenarios
        \cup CallbackScenarios \cup CollisionScenarios
        \cup FileSystemErrorScenarios \cup ContentTypeScenarios
        \cup LeftoverScenarios \cup HeaderScenarios \cup LongFirstPartScenarios
        \cup SeededBodyScenarios \cup SmallPacketScenarios
        \cup TightCapScenarios

(* ------------------------------ the state ----------------------------- *)
VARIABLES
    scenario,            \* the inputs of this download (never changes)
    _stream,             \* the bytes the peer has sent and nobody has read yet
    _input_buffer,       \* the caller's buffer: body bytes read with the headers
    _buffer_storage,     \* the string under the capped dynamic buffer
    _settings,
    _boundary,
    _file_path,
    _file,               \* the std::ofstream: is_open and the path it writes
    _output_file_paths,
    fs,                  \* the files on disk: path -> bytes
    pc,                  \* "start", "reading", "completed", "done"
    delimiter,           \* the delimiter of the read_until under way
    handler,             \* the step that runs when the read_until completes
    error_code,          \* what the last read_until reported
    bytes_transferred,
    timer,               \* the stream's timeout: "never" or "armed"
    result,              \* the (error, paths) pair download has returned
    reads,               \* the number of read_some calls, up to MaxReads
    generated,           \* the last call of generate_file_path
    injected,            \* whether the stream has failed before its end
    header_calls,        \* the file names on_read_file_header_handler was given
    body_calls,          \* the paths on_read_file_body_handler was given
    completed,           \* the parts whose body ended: path and bytes on disk
    reference,           \* the outcome of the same download read whole
    pending,             \* the read_until operations started and not completed
    self_ptr,            \* the self_ptr the pending completion handler holds
    trace,               \* the steps of the parser and of the sink, in order
    threads              \* two more downloaders, each on a thread of its own

vars ==
    <<scenario, _stream, _input_buffer, _buffer_storage, _settings, _boundary,
      _file_path, _file, _output_file_paths, fs, pc, delimiter, handler,
      error_code, bytes_transferred, timer, result, reads, generated, injected,
      header_calls, body_calls, completed, reference, pending, self_ptr, trace,
      threads>>

\* a downloader of a session thread before its header step: its members
\* _file_path and _file and the locals of generate_file_path
IdleThread ==
    [pc |-> "idle", _file_path |-> <<>>, is_open |-> FALSE, new_file_name |-> <<>>,
     copy_number |-> 0, copy_number_start_position |-> 0]

\* the members of a default-constructed settings object
DefaultSettings ==
    [packets_size                |-> 10 * 1024 * 1024,
     output_directory            |-> OUTPUT_DIRECTORY,
     on_read_file_header_handler |-> "none",
     on_read_file_body_handler   |-> FALSE]

\* the settings object a scenario passes to download
CustomSettings(sc) ==
    [packets_size                |-> sc.packets_size,
     output_directory            |-> OUTPUT_DIRECTORY,
     on_read_file_header_handler |-> sc.header_handler,
     on_read_file_body_handler   |-> sc.body_handler]

ClosedFile == [is_open |-> FALSE, path |-> <<>>]
NoResult == [error_code |-> "none", paths |-> <<>>]
NoReference == [result |-> NoResult, fs |-> <<>>, trace |-> <<>>]
NotGenerated == [file_name |-> <<>>, files |-> {}, path |-> <<>>]

\* a downloader constructed on a stream and the caller's buffer
Init ==
    /\ scenario \in Scenarios
    /\ LET body == BodyBytes(scenario.boundary, scenario.parts)
       IN  /\ _input_buffer = Take(body, scenario.leftover)
           /\ _stream = Drop(body, scenario.leftover)
    /\ _buffer_storage = <<>>
    /\ _settings = DefaultSettings
    /\ _boundary = <<>>
    /\ _file_path = <<>>
    /\ _file = ClosedFile
    /\ _output_file_paths = <<>>
    /\ fs = [p \in scenario.files |-> OLD]
    /\ pc = "start"
    /\ delimiter = <<>>
    /\ handler = "none"
    /\ error_code = "ok"
    /\ bytes_transferred = 0
    /\ timer = "never"
    /\ result = NoResult
    /\ reads = 0
    /\ generated = NotGenerated
    /\ injected = FALSE
    /\ header_calls = <<>>
    /\ body_calls = <<>>
    /\ completed = <<>>
    /\ reference = NoReference
    /\ pending = 0
    /\ self_ptr = "null"
    /\ trace = <<>>
    /\ threads = [i \in 1..2 |-> IdleThread]

(* ----------------------------- the steps ------------------------------ *)
\* expires_after before a read and expires_never before a return: async only
Armed(sc) == IF sc.mode = "async" THEN "armed" ELSE "never"

\* the self_ptr argument of async_download: the shared pointer of the session
\* that owns the downloader; sync_download takes none
SelfPtr(sc) == IF sc.mode = "async" THEN "session" ELSE "null"

\* the capture [this, self_ptr] of a completion lambda (mutant: the lambda
\* is left with a pointer that was moved from)
Capture_Released(ptr) == "null"

\* the capture [this, self_ptr] of a completion lambda: a copy of the pointer
Capture(ptr) == ptr

\* the reads under way once the completion handler that runs now was entered
Outstanding == IF pc = "completed" THEN pending - 1 ELSE pending

\* a read_until / async_read_until is started; its completion handler holds a
\* copy of ptr
StartRead(ptr) ==
    /\ pending' = Outstanding + 1
    /\ self_ptr' = Capture(ptr)

\* the steps the code takes are appended to the trace, as long as it has room
Log(events) ==
    trace' = IF Len(trace) + Len(events) > MaxTrace THEN trace
             ELSE trace \o events

\* boost::asio::read_until / async_read_until called on the buffered bytes:
\* it completes at once on a match or a full buffer, else a read_some is due
ReadUntil(storage, max_size, delim, next) ==
    LET check == ReadUntilCheck(storage, max_size, delim)
    IN  /\ delimiter' = delim
        /\ handler' = next
        /\ bytes_transferred' = check.bytes
        /\ error_code' = IF check.state = "full" THEN "not_found" ELSE "ok"
        /\ pc' = IF check.state = "more" THEN "reading" ELSE "completed"

\* download returns, or the completion handler is called, with (ec, paths)
Return(ec, paths) ==
    /\ pc' = "done"
    /\ result' = [error_code |-> ec, paths |-> paths]
    /\ error_code' = ec
    /\ pending' = Outstanding
    /\ self_ptr' = "null"
    /\ UNCHANGED <<delimiter, handler, bytes_transferred>>

\* the check of sync_download / async_download: the content type holds the
\* text multipart/form-data (mutant: the check is left out)
IsMultipart_Unchecked(content_type) == TRUE

IsMultipart(content_type) == Find(content_type, MULTIPART) # 0

\* content_type.find("boundary="), 0 when absent (mutant: a miss gives the
\* end position instead of npos, so the check for npos never fires)
BoundaryPosition_EndOnMiss(content_type) ==
    IF Find(content_type, BOUNDARY_TOKEN) = 0 THEN Len(content_type) + 1
    ELSE Find(content_type, BOUNDARY_TOKEN)

BoundaryPosition(content_type) == Find(content_type, BOUNDARY_TOKEN)

\* sync_prepare_files_processing / async_prepare_files_processing up to the
\* first read: clear the paths, seed the buffer, extract the boundary
PrepareFilesProcessing ==
    LET boundary_position == BoundaryPosition(scenario.content_type)
    IN  /\ _output_file_paths' = <<>>
        /\ _buffer_storage' = _input_buffer
        /\ IF boundary_position = 0
           THEN /\ Return("not_found", <<>>)
                /\ UNCHANGED <<_boundary, timer>>
           ELSE /\ _boundary' = From(scenario.content_type, boundary_position + 9)
                /\ timer' = Armed(scenario)
                /\ StartRead(SelfPtr(scenario))
                /\ ReadUntil(_buffer_storage', _settings'.packets_size, _boundary',
                             "first_boundary")
                /\ UNCHANGED result

\* sync_download / async_download
Download ==
    /\ pc = "start"
    /\ IF ~IsMultipart(scenario.content_type)
       THEN /\ Return("invalid_argument", <<>>)
            /\ UNCHANGED <<_settings, _output_file_paths, _buffer_storage,
                           _boundary, timer>>
       ELSE /\ _settings' = CustomSettings(scenario)
            /\ PrepareFilesProcessing
    /\ Log(<<"download">> \o (IF pc' = "done" THEN <<>> ELSE <<"read_until">>))
    /\ UNCHANGED <<threads, scenario, _stream, _input_buffer, _file_path, _file, fs,
                   reads, generated, injected, header_calls, body_calls,
                   completed, reference>>

\* the errors the next read_some can end with: end of stream once the peer has
\* sent everything, otherwise what the scenario's stream may do
StreamErrors ==
    (IF _stream = <<>> THEN {"eof"} ELSE {}) \cup scenario.faults

\* the most bytes the next read_some asks the stream for: the room the buffer
\* has left (the packets_size of the scenarios is below the 512 bytes that
\* read_until asks for at least)
BytesToRead ==
    _settings.packets_size - BufferSize(_buffer_storage, _settings.packets_size)

\* one read_some inside read_until hands over n bytes; read_until looks again
ReadBytes(n) ==
    /\ pc = "reading"
    /\ n \in 1..Min(BytesToRead, Len(_stream))
    /\ _buffer_storage' = _buffer_storage \o Take(_stream, n)
    /\ _stream' = Drop(_stream, n)
    /\ ReadUntil(_buffer_storage', _settings.packets_size, delimiter, handler)
    /\ reads' = Min(reads + 1, MaxReads)
    /\ UNCHANGED <<threads, scenario, _input_buffer, _settings, _boundary, _file_path,
                   _file, _output_file_paths, fs, timer, result, generated,
                   injected, header_calls, body_calls, completed, reference,
                   pending, self_ptr, trace>>

\* one read_some inside read_until fails with e; read_until ends with e
ReadFails(e) ==
    /\ pc = "reading"
    /\ e \in StreamErrors
    /\ pc' = "completed"
    /\ error_code' = e
    /\ bytes_transferred' = 0
    /\ injected' = (injected \/ e # "eof")
    /\ reads' = Min(reads + 1, MaxReads)
    /\ UNCHANGED <<threads, scenario, _stream, _input_buffer, _buffer_storage, _settings,
                   _boundary, _file_path, _file, _output_file_paths, fs,
                   delimiter, handler, timer, result, generated, header_calls,
                   body_calls, completed, reference, pending, self_ptr, trace>>

\* the stream hands over between one byte and all it was asked for, or fails
ReadSome ==
    \/ \E n \in 1..scenario.packets_size : ReadBytes(n)
    \/ \E e \in {"eof", "connection_reset", "timed_out"} : ReadFails(e)

\* the completion of the first read (the lambda of async_prepare_files_
\* processing, the lines after the first read_until of the sync one): drop
\* the bytes up to the first boundary and read the first header
FirstBoundaryRead ==
    /\ pc = "completed"
    /\ handler = "first_boundary"
    /\ IF error_code # "ok"
       THEN /\ Return(error_code, <<>>)
            /\ _output_file_paths' = <<>>
            /\ UNCHANGED <<_buffer_storage, timer>>
       ELSE /\ _buffer_storage' =
                    Consume(_buffer_storage, bytes_transferred, _settings.packets_size)
            /\ timer' = Armed(scenario)
            /\ StartRead(self_ptr)
            /\ ReadUntil(_buffer_storage', _settings.packets_size, HEADER_END,
                         "file_header")
            /\ UNCHANGED <<result, _output_file_paths>>
    /\ Log(<<"first_boundary">>
           \o (IF error_code = "ok" THEN <<"read_until">> ELSE <<>>))
    /\ UNCHANGED <<threads, scenario, _stream, _input_buffer, _settings, _boundary,
                   _file_path, _file, fs, reads, generated, injected,
                   header_calls, body_calls, completed, reference>>

\* (mutant: a block without a closing quote is accepted)
ParseFileName_NoQuoteCheck(file_header_data) ==
    LET file_name_position == Find(file_header_data, FILENAME_TOKEN)
        rest               == From(file_header_data, file_name_position + 10)
        closing            == RFind(rest, QUOTE)
    IN  IF file_name_position = 0
        THEN [found |-> FALSE, file_name |-> <<>>]
        ELSE [found |-> TRUE,
              file_name |-> IF closing = 0 THEN rest ELSE Take(rest, closing - 1)]

\* (mutant: the name ends at the first double quote after the token)
ParseFileName_FirstQuote(file_header_data) ==
    LET file_name_position == Find(file_header_data, FILENAME_TOKEN)
        rest               == From(file_header_data, file_name_position + 10)
        closing            == Find(rest, <<QUOTE>>)
    IN  IF file_name_position = 0 \/ closing = 0
        THEN [found |-> FALSE, file_name |-> <<>>]
        ELSE [found |-> TRUE, file_name |-> Take(rest, closing - 1)]

\* the file name of a header block: what lies between the first filename="
\* and the last double quote of the block
ParseFileName(file_header_data) ==
    LET file_name_position == Find(file_header_data, FILENAME_TOKEN)
        rest               == From(file_header_data, file_name_position + 10)
        closing            == RFind(rest, QUOTE)
    IN  IF file_name_position = 0 \/ closing = 0
        THEN [found |-> FALSE, file_name |-> <<>>]
        ELSE [found |-> TRUE, file_name |-> Take(rest, closing - 1)]

\* (mutant: what the handler returns is dropped)
HandlerPath_Ignored(kind, file_name) == <<>>

\* what the configured on_read_file_header_handler returns for a file name
HandlerPath(kind, file_name) ==
    CASE kind = "fixed"   -> FIXED_PATH
      [] kind = "missing" -> MISSING_PATH
      [] OTHER            -> <<>>

\* (mutant: the completion of the body read runs the header step again)
AfterHeader_Header == "file_header"

\* the step the completion of the body read runs: the body step
AfterHeader == "file_body"

\* _output_file_paths.emplace_back (mutant: the path is put in front)
EmplaceBack_Front(v, path) == <<path>> \o v

\* _output_file_paths.emplace_back(_file_path)
EmplaceBack(v, path) == Append(v, path)

\* sync_process_file_header / async_process_file_header: leave on an error
HeaderFails(ec, path, disarm) ==
    /\ Return(ec, _output_file_paths)
    /\ _file_path' = path
    /\ timer' = IF disarm THEN "never" ELSE timer
    /\ UNCHANGED <<_buffer_storage, _file, _output_file_paths, fs>>

\* sync_process_file_header / async_process_file_header: parse the file name,
\* resolve the path, open the file, publish the path, read the body
ProcessFileHeader ==
    /\ pc = "completed"
    /\ handler = "file_header"
    /\ LET parsed     == ParseFileName(Take(_buffer_storage, bytes_transferred))
           configured == _settings.on_read_file_header_handler # "none"
           returned   == HandlerPath(_settings.on_read_file_header_handler,
                                     parsed.file_name)
           generates  == ~configured \/ returned = <<>>
           path       == IF generates
                         THEN GenerateFilePath(_settings.output_directory,
                                               parsed.file_name, DOMAIN fs)
                         ELSE returned
           parses     == error_code = "ok" /\ parsed.found
           opens      == /\ parses
                         /\ ~(generates /\ scenario.exists_throws)
                         /\ CanOpen(_file, path)
       IN  /\ Log(<<"file_header">>
                  \o (IF parses /\ configured
                      THEN <<"on_read_file_header_handler">> ELSE <<>>)
                  \o (IF parses /\ generates
                      THEN <<"generate_file_path">> ELSE <<>>)
                  \o (IF opens THEN <<"open", "emplace_back", "read_until">>
                      ELSE <<>>))
           /\ header_calls' = IF parses /\ configured
                              THEN Append(header_calls, parsed.file_name)
                              ELSE header_calls
           /\ generated' = IF parses /\ generates /\ ~scenario.exists_throws
                           THEN [file_name |-> parsed.file_name,
                                 files |-> DOMAIN fs, path |-> path]
                           ELSE generated
           /\ IF error_code # "ok"
              THEN HeaderFails(error_code, _file_path, TRUE)
              ELSE IF ~parsed.found
              THEN HeaderFails("not_found", _file_path, TRUE)
              ELSE IF generates /\ scenario.exists_throws
              THEN HeaderFails("bad_descriptor",
                               PathJoin(_settings.output_directory,
                                        parsed.file_name), FALSE)
              ELSE IF ~CanOpen(_file, path)
              THEN HeaderFails("invalid_argument", path, TRUE)
              ELSE /\ _file_path' = path
                   /\ _file' = [is_open |-> TRUE, path |-> path]
                   /\ fs' = Truncated(fs, path)
                   /\ _output_file_paths' = EmplaceBack(_output_file_paths, path)
                   /\ _buffer_storage' =
                          Consume(_buffer_storage, bytes_transferred,
                                  _settings.packets_size)
                   /\ timer' = Armed(scenario)
                   /\ StartRead(self_ptr)
                   /\ ReadUntil(_buffer_storage', _settings.packets_size,
                                _boundary, AfterHeader)
                   /\ UNCHANGED result
    /\ UNCHANGED <<threads, scenario, _stream, _input_buffer, _settings, _boundary,
                   reads, injected, body_calls, completed, reference>>

\* the last element of a non-empty vector: std::vector::back
Back(v) == v[Len(v)]

\* pop_back left out (mutant)
PopBack_LeftOut(v) == v

\* std::vector::pop_back
PopBack(v) == SubSeq(v, 1, Len(v) - 1)

\* (mutant: the body handler is not called)
BodyHandlerCalls_Skipped(configured, calls, path) == calls

\* the paths on_read_file_body_handler was called with, after a part whose
\* file is at path was completed: it is called when it is configured
BodyHandlerCalls(configured, calls, path) ==
    IF configured THEN Append(calls, path) ELSE calls

\* _file.close() (mutant: the call is left out)
Close_LeftOpen(file) == file

\* _file.close()
Close(file) == [file EXCEPT !.is_open = FALSE]

\* the first test of the body step, error_code == not_found: the cap was hit
\* (mutant: async_process_file_body has no such branch)
IsCapHit_SyncOnly(mode, ec) == mode = "sync" /\ ec = "not_found"

\* (mutant: a read that timed out is taken for a cap hit as well)
IsCapHit_OrTimeout(mode, ec) == ec \in {"not_found", "timed_out"}

IsCapHit(mode, ec) == ec = "not_found"

\* what _file.write appends in the build the scenario runs: a build does one
\* thing with a count that wrapped, and the scenario may say which
BuildOutcomes(storage, n) ==
    {bytes \in WriteOutcomes(storage, n) :
        \/ n >= 0
        \/ scenario.wrapped_write = "any"
        \/ scenario.wrapped_write = "nothing" /\ bytes = <<>>
        \/ scenario.wrapped_write = "all" /\ bytes = storage}

\* sync_process_file_body / async_process_file_body on not_found: the buffer
\* is full, all but the last boundary-length bytes go to the file
ForcedFlush ==
    LET count == Len(_buffer_storage) - Len(_boundary)
    IN  /\ \E bytes \in BuildOutcomes(_buffer_storage, count) :
                fs' = Written(fs, _file, bytes)
        /\ _buffer_storage' = Consume(_buffer_storage, count, _settings.packets_size)
        /\ timer' = Armed(scenario)
        /\ StartRead(self_ptr)
        /\ ReadUntil(_buffer_storage', _settings.packets_size, _boundary,
                     "file_body")
        /\ Log(<<"file_body", "write", "read_until">>)
        /\ UNCHANGED <<result, _file, _output_file_paths, body_calls, completed>>

\* sync_process_file_body / async_process_file_body on any other error: close
\* the file, remove it (a removal that throws is ignored), drop its path
AbortFile ==
    /\ timer' = "never"
    /\ _file' = Close(_file)
    /\ fs' = IF scenario.remove_throws THEN fs
             ELSE Removed(fs, Back(_output_file_paths))
    /\ Log(<<"file_body", "close",
             IF _file'.is_open THEN "remove_open" ELSE "remove", "pop_back">>)
    /\ _output_file_paths' = PopBack(_output_file_paths)
    /\ Return(error_code, _output_file_paths')
    /\ UNCHANGED <<_buffer_storage, body_calls, completed>>

\* sync_process_file_body / async_process_file_body on a match: write what
\* precedes CRLF "--" boundary, close, call the body handler, drop the
\* matched bytes, return on "--\r\n" and read the next header otherwise
CompleteFile ==
    LET count == bytes_transferred - Len(_boundary) - 4
    IN  /\ \E bytes \in BuildOutcomes(_buffer_storage, count) :
                fs' = Written(fs, _file, bytes)
        /\ _file' = Close(_file)
        /\ completed' = Append(completed, [path  |-> Back(_output_file_paths),
                                           bytes |-> fs'[Back(_output_file_paths)]])
        /\ body_calls' = BodyHandlerCalls(_settings.on_read_file_body_handler,
                                          body_calls, Back(_output_file_paths))
        /\ _buffer_storage' =
               Consume(_buffer_storage, bytes_transferred, _settings.packets_size)
        /\ IF _buffer_storage' = EPILOGUE
           THEN /\ timer' = "never"
                /\ Return(error_code, _output_file_paths)
           ELSE /\ timer' = Armed(scenario)
                /\ StartRead(self_ptr)
                /\ ReadUntil(_buffer_storage', _settings.packets_size,
                             HEADER_END, "file_header")
                /\ UNCHANGED result
        /\ Log(<<"file_body", "write", "close">>
               \o (IF body_calls' # body_calls
                   THEN <<"on_read_file_body_handler">> ELSE <<>>)
               \o (IF pc' = "done" THEN <<>> ELSE <<"read_until">>))
        /\ UNCHANGED _output_file_paths

\* sync_process_file_body / async_process_file_body
ProcessFileBody ==
    /\ pc = "completed"
    /\ handler = "file_body"
    /\ IF IsCapHit(scenario.mode, error_code) THEN ForcedFlush
       ELSE IF error_code # "ok" THEN AbortFile
       ELSE CompleteFile
    /\ UNCHANGED <<threads, scenario, _stream, _input_buffer, _settings, _boundary,
                   _file_path, reads, generated, injected, header_calls,
                   reference>>

Next ==
    \/ Download
    \/ ReadSome
    \/ FirstBoundaryRead
    \/ ProcessFileHeader
    \/ ProcessFileBody

Spec == Init /\ [][Next]_vars

\* the downloads whose end is checked: every packets_size up to the one of
\* the other scenarios, a boundary as long as packets_size, parts that are
\* flushed
LiveScenarios ==
    SmallPacketScenarios \cup TightCapScenarios \cup LongPartScenarios

InitLive == Init /\ scenario \in LiveScenarios

\* the steps of a download are taken as long as one is due: a handler that
\* was called runs to its end, a read that was started completes
SpecLive == InitLive /\ [][Next]_vars /\ WF_vars(Next)

(* ------------------- reading whole, then in pieces -------------------- *)
\* the well-formed bodies whose parts fit the buffer with their delimiter, on
\* a stream that does not fail
ChunkScenarios ==
    {sc \in Scenarios :
        /\ sc.content_type = CT_BOUNDARY_LAST
        /\ sc.faults = {}
        /\ ~sc.exists_throws
        /\ \A i \in 1..Len(sc.parts) :
              Len(sc.parts[i].data) + Len(sc.boundary) + 4 <= sc.packets_size}

InitChunks == Init /\ scenario \in ChunkScenarios

\* the first download: every read_some hands over all it was asked for
ReadWhole ==
    /\ reference = NoReference
    /\ IF _stream = <<>> THEN ReadFails("eof")
       ELSE ReadBytes(Min(BytesToRead, Len(_stream)))

\* the second download: chunks of any length below packets_size
ReadSplit ==
    /\ reference # NoReference
    /\ \/ \E n \in 1..(scenario.packets_size - 1) : ReadBytes(n)
       \/ ReadFails("eof")

\* a new downloader on a stream that carries the body of sc, the file system
\* as it was before the download, the outcome of the download that returned
\* kept for comparison
Restart(sc) ==
    /\ pc = "done"
    /\ reference = NoReference
    /\ reference' = [result |-> result, fs |-> fs, trace |-> trace]
    /\ scenario' = sc
    /\ LET body == BodyBytes(sc.boundary, sc.parts)
       IN  /\ _input_buffer' = Take(body, sc.leftover)
           /\ _stream' = Drop(body, sc.leftover)
    /\ _buffer_storage' = <<>>
    /\ _settings' = DefaultSettings
    /\ _boundary' = <<>>
    /\ _file_path' = <<>>
    /\ _file' = ClosedFile
    /\ _output_file_paths' = <<>>
    /\ fs' = [p \in sc.files |-> OLD]
    /\ pc' = "start"
    /\ delimiter' = <<>>
    /\ handler' = "none"
    /\ error_code' = "ok"
    /\ bytes_transferred' = 0
    /\ timer' = "never"
    /\ result' = NoResult
    /\ reads' = 0
    /\ generated' = NotGenerated
    /\ injected' = FALSE
    /\ header_calls' = <<>>
    /\ body_calls' = <<>>
    /\ completed' = <<>>
    /\ pending' = 0
    /\ self_ptr' = "null"
    /\ trace' = <<>>
    /\ UNCHANGED threads

\* the first download has returned: run the same download again
Replay == Restart(scenario)

NextChunks ==
    \/ Download
    \/ ReadWhole
    \/ ReadSplit
    \/ FirstBoundaryRead
    \/ ProcessFileHeader
    \/ ProcessFileBody
    \/ Replay

SpecChunks == InitChunks /\ [][NextChunks]_vars

(* --------------------- blocking, then suspend-based -------------------- *)
\* the chunk lengths of the streams the two modes are compared on
Chunks == {3, PacketSize}
\* the numbers of unsent bytes at which the peer may reset the connection
FaultPoints == {8, 20}

\* the downloads of Scenarios in blocking mode, on a stream that hands over
\* chunks of one length and fails, if it does, at one point of the body, in
\* a build that does one thing with a wrapped write count
ModeScenarios ==
    {[sc EXCEPT !.chunk = c,
                !.fault_left = f,
                !.faults = IF f >= 0 THEN {"connection_reset"} ELSE {},
                !.wrapped_write = w] :
        sc \in {x \in Scenarios : x.mode = "sync"},
        c \in Chunks, f \in {-1} \cup FaultPoints, w \in {"nothing", "all"}}

InitModes ==
    /\ scenario \in ModeScenarios
    /\ LET body == BodyBytes(scenario.boundary, scenario.parts)
       IN  /\ _input_buffer = Take(body, scenario.leftover)
           /\ _stream = Drop(body, scenario.leftover)
    /\ _buffer_storage = <<>>
    /\ _settings = DefaultSettings
    /\ _boundary = <<>>
    /\ _file_path = <<>>
    /\ _file = ClosedFile
    /\ _output_file_paths = <<>>
    /\ fs = [p \in scenario.files |-> OLD]
    /\ pc = "start"
    /\ delimiter = <<>>
    /\ handler = "none"
    /\ error_code = "ok"
    /\ bytes_transferred = 0
    /\ timer = "never"
    /\ result = NoResult
    /\ reads = 0
    /\ generated = NotGenerated
    /\ injected = FALSE
    /\ header_calls = <<>>
    /\ body_calls = <<>>
    /\ completed = <<>>
    /\ reference = NoReference
    /\ pending = 0
    /\ self_ptr = "null"
    /\ trace = <<>>
    /\ threads = [i \in 1..2 |-> IdleThread]

\* the stream of the scenario: the connection is reset once fault_left bytes
\* or fewer are unsent, otherwise a read_some gets a chunk
ReadSame ==
    IF scenario.fault_left >= 0 /\ Len(_stream) <= scenario.fault_left
    THEN ReadFails("connection_reset")
    ELSE IF _stream = <<>> THEN ReadFails("eof")
    ELSE ReadBytes(Min(scenario.chunk, Min(BytesToRead, Len(_stream))))

\* sync_download has returned: async_download is given the same arguments,
\* stream and file system
ReplayAsync ==
    /\ scenario.mode = "sync"
    /\ Restart([scenario EXCEPT !.mode = "async"])

NextModes ==
    \/ Download
    \/ ReadSame
    \/ FirstBoundaryRead
    \/ ProcessFileHeader
    \/ ProcessFileBody
    \/ ReplayAsync

SpecModes == InitModes /\ [][NextModes]_vars

(* ------------- the body on the stream, then partly seeded ------------- *)
\* one part below or above packets_size, the whole body on a stream that
\* does not fail
SeedScenarios ==
    {sc \in SinglePartScenarios : Len(sc.parts[1].data) \in {1, MaxData}}

InitSeed == Init /\ scenario \in SeedScenarios

\* every read_some hands over all it was asked for
ReadAll ==
    IF _stream = <<>> THEN ReadFails("eof")
    ELSE ReadBytes(Min(BytesToRead, Len(_stream)))

\* the download of the body from the stream has returned: the same download
\* with the first l bytes of the body in the caller's input buffer
ReplaySeeded ==
    \E l \in 1..Len(BodyBytes(scenario.boundary, scenario.parts)) :
        Restart([scenario EXCEPT !.leftover = l])

NextSeed ==
    \/ Download
    \/ ReadAll
    \/ FirstBoundaryRead
    \/ ProcessFileHeader
    \/ ProcessFileBody
    \/ ReplaySeeded

SpecSeed == InitSeed /\ [][NextSeed]_vars

(* ------------------ two downloaders on two threads -------------------- *)
\* two sessions, each with a downloader of its own on a thread of its own,
\* each sent one part named a.t, into a directory that holds a.t and numbered
\* copies or nothing
ThreadScenarios ==
    {sc \in CollisionScenarios :
        sc.mode = "sync" /\ sc.header_handler = "none" /\ sc.files \in
            {Copies(k) : k \in 0..MaxThreadCopies}}

\* the two threads have their downloaders at the header step of their part
InitThreads ==
    /\ Init
    /\ scenario \in ThreadScenarios

\* what the threads leave alone: the downloader of the main thread
OneDownloader ==
    <<scenario, _stream, _input_buffer, _buffer_storage, _settings, _boundary,
      _file_path, _file, _output_file_paths, pc, delimiter, handler,
      error_code, bytes_transferred, timer, result, reads, generated, injected,
      header_calls, body_calls, completed, reference, pending, self_ptr, trace>>

\* generate_file_path up to its first std::filesystem::exists: the path is
\* output_directory / file_name, replaced by stem(1).ext when that exists
ThreadGenerate(i) ==
    /\ threads[i].pc = "idle"
    /\ LET path          == PathJoin(OUTPUT_DIRECTORY, scenario.parts[i].file_name)
           new_file_name == Stem(path) \o <<"(", "1", ")">>
       IN  threads' = [threads EXCEPT ![i] =
               IF Exists(path, DOMAIN fs)
               THEN [@ EXCEPT
                       !.pc = "loop",
                       !.new_file_name = new_file_name,
                       !.copy_number = 1,
                       !.copy_number_start_position = Len(new_file_name) - 2,
                       !._file_path =
                           ReplaceFilename(path, new_file_name \o Extension(path))]
               ELSE [@ EXCEPT !.pc = "open", !._file_path = path]]
    /\ UNCHANGED <<fs, OneDownloader>>

\* one std::filesystem::exists of the loop of generate_file_path: the next
\* copy number when the path exists, the end of the loop when it does not
ThreadLoop(i) ==
    /\ threads[i].pc = "loop"
    /\ LET t         == threads[i]
           next_name == StringReplace(
                            t.new_file_name, t.copy_number_start_position,
                            Len(t.new_file_name) - t.copy_number_start_position - 1,
                            to_string(t.copy_number + 1))
       IN  threads' = [threads EXCEPT ![i] =
               IF Exists(t._file_path, DOMAIN fs)
               THEN [@ EXCEPT
                       !.new_file_name = next_name,
                       !.copy_number = t.copy_number + 1,
                       !._file_path =
                           ReplaceFilename(t._file_path,
                                           next_name \o Extension(t._file_path))]
               ELSE [@ EXCEPT !.pc = "open"]]
    /\ UNCHANGED <<fs, OneDownloader>>

\* _file.open(_file_path, std::ios::binary): the file is created, or
\* truncated when it exists
ThreadOpen(i) ==
    /\ threads[i].pc = "open"
    /\ fs' = Truncated(fs, threads[i]._file_path)
    /\ threads' = [threads EXCEPT ![i] = [@ EXCEPT !.pc = "body", !.is_open = TRUE]]
    /\ UNCHANGED OneDownloader

\* _file.write of the body step and _file.close: the data of the part goes
\* to the start of the file, where the stream's own position is
ThreadWrite(i) ==
    /\ threads[i].pc = "body"
    /\ LET path == threads[i]._file_path
           data == scenario.parts[i].data
       IN  fs' = IF path \in DOMAIN fs
                 THEN [fs EXCEPT ![path] = data \o Drop(@, Len(data))]
                 ELSE fs
    /\ threads' = [threads EXCEPT ![i] = [@ EXCEPT !.pc = "done", !.is_open = FALSE]]
    /\ UNCHANGED OneDownloader

NextThreads ==
    \/ \E i \in 1..2 : ThreadGenerate(i)
    \/ \E i \in 1..2 : ThreadLoop(i)
    \/ \E i \in 1..2 : ThreadOpen(i)
    \/ \E i \in 1..2 : ThreadWrite(i)

SpecThreads == InitThreads /\ [][NextThreads]_vars

(* ------------------------------ the claims ---------------------------- *)
Done == pc = "done"

\* the elements of a sequence
Range(v) == {v[i] : i \in 1..Len(v)}

\* the path automatic generation gives part i in an empty directory
PlainPath(i) == PathJoin(OUTPUT_DIRECTORY, scenario.parts[i].file_name)

\* a well-formed body with distinct file names, its boundary last in the
\* content type, no header-seen callback, no file there beforehand, a file
\* system that works, a stream that hands over every byte
RoundTripCase ==
    /\ scenario.content_type = CT_BOUNDARY_LAST
    /\ scenario.header_handler = "none"
    /\ scenario.files = {}
    /\ ~scenario.exists_throws
    /\ \A i, j \in 1..Len(scenario.parts) :
          i # j => scenario.parts[i].file_name # scenario.parts[j].file_name
    /\ ~injected

\* C1: download of a well-formed body of N parts returns no error and the N
\* paths in arrival order, and the file at the i-th path holds exactly the
\* bytes of the i-th part, whatever the size of the part
C1_RoundTrip ==
    (Done /\ RoundTripCase) =>
        /\ result.error_code = "ok"
        /\ Len(result.paths) = Len(scenario.parts)
        /\ \A i \in 1..Len(scenario.parts) :
              /\ result.paths[i] = PlainPath(i)
              /\ result.paths[i] \in DOMAIN fs
              /\ fs[result.paths[i]] = scenario.parts[i].data

\* C2: the download of a body delivered in chunks below packets_size returns
\* the pair (paths, error) and leaves the files that the download of the same
\* body delivered whole returns and leaves
C2_ChunkIndependence ==
    (Done /\ reference # NoReference) =>
        /\ result = reference.result
        /\ fs = reference.fs

\* download has returned an error the stream raised while a part's body was
\* read
BodyAborted ==
    /\ Done
    /\ handler = "file_body"
    /\ result.error_code # "ok"

\* C3: after a stream error during a part's body, the file of that part is
\* not on disk and its path is not in the returned list
C3_FailureCleanup ==
    BodyAborted =>
        /\ _file_path \notin DOMAIN fs
        /\ _file_path \notin Range(result.paths)

\* C3 as amended: after a stream error during a part's body, the entry of
\* that part is dropped, so that the returned list is the paths of the parts
\* completed before it, and its file is not on disk unless the removal failed
C3_FailureCleanupAmended ==
    BodyAborted =>
        /\ result.paths = [i \in 1..Len(completed) |-> completed[i].path]
        /\ ~scenario.remove_throws => _file_path \notin DOMAIN fs

\* a stream error ends the body of the second part: its file is removed, the
\* path of the first part is what download returns
C3_Witness ==
    /\ BodyAborted
    /\ injected
    /\ Len(completed) = 1
    /\ result.paths = <<completed[1].path>>
    /\ _file_path \notin DOMAIN fs

\* C4: when download returns an error, every returned path names a file on
\* disk that holds the complete body of a part
C4_NoHalfWrittenPath ==
    (Done /\ result.error_code # "ok") =>
        \A p \in Range(result.paths) :
            /\ p \in DOMAIN fs
            /\ \E i \in 1..Len(scenario.parts) : fs[p] = scenario.parts[i].data

\* C5: when download returns an error after some parts were completed, their
\* paths are the returned list, in arrival order, and their files are as they
\* were when each part was completed
C5_NoRollback ==
    (Done /\ result.error_code # "ok" /\ completed # <<>>) =>
        /\ result.paths = [i \in 1..Len(completed) |-> completed[i].path]
        /\ \A i \in 1..Len(completed) :
              /\ completed[i].path \in DOMAIN fs
              /\ fs[completed[i].path] = completed[i].bytes

\* C6: a content type without the text multipart/form-data gives
\* invalid_argument and no path, in both modes, without a read on the stream
\* and without a new file
C6_NotMultipart ==
    (Done /\ Find(scenario.content_type, MULTIPART) = 0) =>
        /\ result = [error_code |-> "invalid_argument", paths |-> <<>>]
        /\ reads = 0
        /\ _stream = BodyBytes(scenario.boundary, scenario.parts)
        /\ fs = [p \in scenario.files |-> OLD]

C6_Witness ==
    /\ Done
    /\ scenario.content_type = TEXT_PLAIN
    /\ scenario.mode = "async"
    /\ result.error_code = "invalid_argument"

\* C7: a multipart/form-data content type without boundary= gives not_found
\* and no path, in both modes, without a read on the stream and without a new
\* file
C7_NoBoundary ==
    (/\ Done
     /\ Find(scenario.content_type, MULTIPART) # 0
     /\ Find(scenario.content_type, BOUNDARY_TOKEN) = 0) =>
        /\ result = [error_code |-> "not_found", paths |-> <<>>]
        /\ reads = 0
        /\ _stream = BodyBytes(scenario.boundary, scenario.parts)
        /\ fs = [p \in scenario.files |-> OLD]

C7_Witness ==
    /\ Done
    /\ scenario.content_type = MULTIPART
    /\ scenario.mode = "sync"
    /\ result.error_code = "not_found"

\* C8: once the boundary is extracted from a content type that holds
\* boundary=X, it is X, whatever follows X
C8_BoundaryVerbatim ==
    (/\ pc # "start"
     /\ Find(scenario.content_type, MULTIPART) # 0
     /\ Find(scenario.content_type, BOUNDARY_TOKEN) # 0) =>
        _boundary = scenario.boundary

\* a file name as the claim reads it, stem.ext: split at its last period
NameStem(name) == IF RFind(name, ".") = 0 THEN name ELSE Take(name, RFind(name, ".") - 1)
NameExt(name) == IF RFind(name, ".") = 0 THEN <<>> ELSE From(name, RFind(name, "."))

\* the k-th path of the sequence stem.ext, stem(1).ext, stem(2).ext, ...
Candidate(name, k) ==
    PathJoin(OUTPUT_DIRECTORY,
             IF k = 0 THEN name
             ELSE NameStem(name) \o <<"(">> \o to_string(k) \o <<")">> \o NameExt(name))

\* the first path of that sequence that is not in files
FirstFree(name, files) ==
    Candidate(name, CHOOSE k \in 0..Cardinality(files) :
                        /\ Candidate(name, k) \notin files
                        /\ \A j \in 0..(k - 1) : Candidate(name, j) \in files)

\* C9: a generated path is the first free path of stem.ext, stem(1).ext,
\* stem(2).ext, ..., it names no file that exists when it is generated, and
\* two parts named a.t in one download into an empty directory get a.t and
\* a(1).t
C9_NameCollision ==
    /\ generated # NotGenerated =>
          /\ generated.path = FirstFree(generated.file_name, generated.files)
          /\ generated.path \notin generated.files
    /\ (/\ scenario \in CollisionScenarios
        /\ scenario.files = {}
        /\ Len(_output_file_paths) = 2) =>
          _output_file_paths = <<PathJoin(OUTPUT_DIRECTORY, NAME_A), CopyPath(1)>>

\* a.t and its copies 1 to 9 exist: the two parts get the copies 10 and 11
C9_Witness ==
    /\ Done
    /\ scenario.files = Copies(10)
    /\ result.paths = <<CopyPath(10), CopyPath(11)>>
    /\ generated.path = CopyPath(11)

\* C10: a file that exists before the download exists with the same bytes in
\* every state of the download: no header step truncates or replaces it
C10_NoOverwrite ==
    \A p \in scenario.files : p \in DOMAIN fs /\ fs[p] = OLD

\* C11: in every state the buffer holds at most packets_size bytes, whatever
\* the number of bytes it was seeded with and the size of the parts
C11_BufferBound == Len(_buffer_storage) <= _settings.packets_size

\* the body the sender gave the part whose file is open
InFlightData == scenario.parts[Len(_output_file_paths)].data

IsPrefix(a, b) == Len(a) <= Len(b) /\ a = Take(b, Len(a))

\* C12: while the body of a part of a well-formed download is read, forced
\* flushes included, the file holds bytes of the part's data only: no byte
\* of the CRLF "--" boundary that ends the part has been written to it
C12_FlushKeepsDelimiter ==
    (_file.is_open /\ RoundTripCase) =>
        IsPrefix(fs[_file.path], InFlightData)

\* the paths of the parts whose body was completed, in arrival order
CompletedPaths == [i \in 1..Len(completed) |-> completed[i].path]

\* C13: in every state each path of the list is the path of a part whose
\* body was completed: a path is appended at completion only
C13_AppendOnCompletion ==
    /\ Len(_output_file_paths) <= Len(completed)
    /\ \A i \in 1..Len(_output_file_paths) :
          _output_file_paths[i] = completed[i].path

\* C13 as amended: the list is the paths of the completed parts, followed by
\* the path of the part in flight as long as its file is open (the path is
\* appended when the file is opened); when download returns, the returned
\* list is the paths of the completed parts and the file is closed
C13_AppendOnOpen ==
    /\ ~Done => _output_file_paths =
                    CompletedPaths \o (IF _file.is_open THEN <<_file.path>> ELSE <<>>)
    /\ Done => (result.paths = CompletedPaths /\ ~_file.is_open)

\* the body of the second part is being read: its path is the last of the
\* list already
C13_Witness ==
    /\ pc = "reading"
    /\ handler = "file_body"
    /\ Len(completed) = 1
    /\ _file.is_open
    /\ _output_file_paths = <<completed[1].path, _file_path>>

\* how many times event occurs in the trace
Count(event) == Cardinality({i \in 1..Len(trace) : trace[i] = event})

\* a body is being read: the read is under way or its completion is due
InBody == pc \in {"reading", "completed"} /\ handler = "file_body"

\* C14: the files opened and not yet closed are one or none, and a file is
\* open only from the header step that opened it to the end of the body of
\* the same part
C14_OneHandle ==
    /\ Count("open") - Count("close") = (IF _file.is_open THEN 1 ELSE 0)
    /\ _file.is_open =>
          /\ InBody
          /\ _file.path = _file_path
          /\ _file.path = Back(_output_file_paths)

\* the first file was closed, the second one is open while its body is read
C14_Witness ==
    /\ _file.is_open
    /\ pc = "completed"
    /\ handler = "file_body"
    /\ Count("open") = 2
    /\ Count("close") = 1

\* C15: when download has returned, with or without an error, no file is
\* open, and a file that is removed was closed before
C15_NoHandleLeak ==
    /\ Done => ~_file.is_open
    /\ Count("remove_open") = 0

\* download has returned an error after it closed and removed the file of
\* the part in flight
C15_Witness ==
    /\ Done
    /\ result.error_code # "ok"
    /\ Count("remove") = 1
    /\ Count("close") = 2
    /\ ~_file.is_open

Async == scenario.mode = "async"

\* C17: in suspend-based mode, whenever a read is under way or its completion
\* is due, the completion handler holds the caller's self_ptr, and the
\* pointer is given up only by the step in which download returns
C17_KeepAlive ==
    /\ [](Async /\ pending > 0 => self_ptr = "session")
    /\ [][(Async /\ self_ptr = "session" /\ self_ptr' # "session") => pc' = "done"]_vars

\* the read of the second part's body is under way and holds the pointer
C17_Witness ==
    /\ Async
    /\ pc = "reading"
    /\ handler = "file_body"
    /\ Len(completed) = 1
    /\ pending = 1
    /\ self_ptr = "session"

\* C18: during an async_download at most one read is under way; a read is
\* started by download or by the completion of the read before it, never
\* while a read is under way; the completion of a read that timed out starts
\* no read
C18_OnePendingRead ==
    /\ [](Async => (pending <= 1 /\ (pc = "reading" => pending = 1)))
    /\ [][(Async /\ pc = "reading") => pending' = pending]_vars
    /\ [][(Async /\ pc = "completed" /\ error_code = "timed_out")
             => (pending' = 0 /\ pc' = "done")]_vars

\* the read of a body timed out and download returned with no read under way
C18_Witness ==
    /\ Async
    /\ Done
    /\ handler = "file_body"
    /\ result.error_code = "timed_out"
    /\ pending = 0
    /\ Count("write") > 0

\* C19: once a read of an async_download has timed out, no read follows and
\* download returns the timeout; when it struck in a body, the file of the
\* part in flight is gone and its path dropped, and the paths and files of
\* the parts completed before are as they were
C19_TimeoutNotRetried ==
    (Async /\ injected) =>
        /\ pc \in {"completed", "done"}
        /\ error_code = "timed_out"
        /\ Done =>
              /\ result.error_code = "timed_out"
              /\ handler = "file_body" =>
                    /\ _file_path \notin DOMAIN fs
                    /\ result.paths = CompletedPaths
                    /\ \A i \in 1..Len(completed) :
                          /\ completed[i].path \in DOMAIN fs
                          /\ fs[completed[i].path] = completed[i].bytes

\* download returned from a header step before the file name was extracted
HeaderUnparsed ==
    /\ Done
    /\ handler = "file_header"
    /\ result.error_code \notin {"bad_descriptor", "invalid_argument"}

\* the header steps that extracted a file name
ParsedHeaders == Count("file_header") - (IF HeaderUnparsed THEN 1 ELSE 0)

\* position i of the trace is an open that the call of the header handler
\* comes before, within the same header step
CalledBefore(i) ==
    \E j \in 1..(i - 1) :
        /\ trace[j] = "on_read_file_header_handler"
        /\ \A k \in j..i : trace[k] # "file_header"

\* the file name the sender gave the part whose file is open
InFlightName == scenario.parts[Len(_output_file_paths)].file_name

\* C20: a configured header handler is called once for each header whose
\* file name was extracted, with that name and before the file is opened,
\* and never when it is not configured; the path it returns, when not empty,
\* is the path of the part; with an empty path or no handler the path is the
\* generated one, output_directory / file name under the collision policy
C20_HeaderCallback ==
    LET kind == scenario.header_handler
    IN  /\ Len(header_calls) = (IF kind = "none" THEN 0 ELSE ParsedHeaders)
        /\ \A i \in 1..Len(header_calls) :
              header_calls[i] = scenario.parts[i].file_name
        /\ kind # "none" =>
              \A i \in 1..Len(trace) : trace[i] = "open" => CalledBefore(i)
        /\ (_file.is_open /\ kind = "fixed") => _file.path = FIXED_PATH
        /\ (Done /\ kind = "missing" /\ result.error_code = "invalid_argument")
              => _file_path = MISSING_PATH
        /\ (_file.is_open /\ kind \in {"none", "empty"}) =>
              /\ _file.path = generated.path
              /\ generated.file_name = InFlightName
              /\ generated.path = FirstFree(InFlightName, generated.files)

\* the handler was called for both parts and the file of the second part is
\* open at the path it returned
C20_Witness ==
    /\ scenario.header_handler = "fixed"
    /\ Len(header_calls) = 2
    /\ _file.is_open
    /\ _file.path = FIXED_PATH
    /\ Count("on_read_file_header_handler") = 2

\* position i of the trace is a call of the body handler that comes right
\* after the close of the file and before the next read is started
AfterClose(i) ==
    /\ i > 1
    /\ trace[i - 1] = "close"
    /\ \A k \in 1..(i - 1) : trace[k] = "read_until" =>
          \E j \in (k + 1)..(i - 1) : trace[j] = "close"

\* C21: a configured body handler has been called once for each part whose
\* body was completed, with the path of that part and in their order, each
\* time right after the file was closed and before the next read; it is
\* not called for a part that was aborted, nor when it is not configured
C21_BodyCallback ==
    /\ body_calls = (IF scenario.body_handler THEN CompletedPaths ELSE <<>>)
    /\ Count("on_read_file_body_handler") = Len(body_calls)
    /\ \A i \in 1..Len(trace) :
          trace[i] = "on_read_file_body_handler" => AfterClose(i)
    /\ (BodyAborted /\ scenario.body_handler) =>
          Len(body_calls) = Count("open") - 1

\* the first part was completed and reported, the second one was aborted
C21_Witness ==
    /\ BodyAborted
    /\ scenario.body_handler
    /\ Len(body_calls) = 1
    /\ Count("open") = 2
    /\ body_calls[1] = completed[1].path

\* the positions of block at which the token filename=" starts
TokenAt(block) ==
    {i \in 1..(Len(block) - 9) : SubSeq(block, i, i + 9) = FILENAME_TOKEN}

\* the positions of the double quotes of block behind its first token
QuotesBehindToken(block) ==
    {q \in 1..Len(block) :
        /\ block[q] = QUOTE
        /\ \A i \in TokenAt(block) : (\A j \in TokenAt(block) : i <= j) => q >= i + 10}

\* the block has no filename=" token or no double quote behind it
Malformed(block) == TokenAt(block) = {} \/ QuotesBehindToken(block) = {}

\* the text between the first token and the last double quote of the block
ExpectedName(block) ==
    LET first == CHOOSE i \in TokenAt(block) : \A j \in TokenAt(block) : i <= j
        last  == CHOOSE q \in QuotesBehindToken(block) :
                     \A r \in QuotesBehindToken(block) : r <= q
    IN  SubSeq(block, first + 10, last - 1)

\* a header block was read and the header step is due
HeaderRead == pc = "completed" /\ handler = "file_header" /\ error_code = "ok"

\* the header block that was read
HeaderBlock == Take(_buffer_storage, bytes_transferred)

\* C22: the header step on a block without the token filename=" or without
\* a closing double quote ends the download with not_found and the paths of
\* the parts completed before: no file is created or changed, the header
\* handler is not called, no read is started and nothing more is taken from
\* the stream
C22_MalformedHeader ==
    [][(HeaderRead /\ Malformed(HeaderBlock)) =>
          /\ pc' = "done"
          /\ result' = [error_code |-> "not_found", paths |-> CompletedPaths]
          /\ fs' = fs
          /\ ~_file'.is_open
          /\ header_calls' = header_calls
          /\ pending' = 0
          /\ _stream' = _stream
          /\ _buffer_storage' = _buffer_storage]_vars

\* the header of the first part has no closing quote: download returned
\* not_found with the second part unread
C22_Witness ==
    /\ Done
    /\ handler = "file_header"
    /\ result = [error_code |-> "not_found", paths |-> <<>>]
    /\ scenario.parts[1].header = FILENAME_TOKEN \o NAME_A
    /\ Len(scenario.parts) = 2
    /\ Len(_stream) > 0
    /\ fs = <<>>

\* C29: the header step on a block with the token filename=" and a closing
\* double quote takes as file name exactly the text between the first token
\* and the last double quote of the block: that text is what the header
\* handler is called with and what the generated path is made from
C29_FileNameExtraction ==
    [][(HeaderRead /\ ~Malformed(HeaderBlock)) =>
          /\ (_settings.on_read_file_header_handler # "none" =>
                 header_calls' = Append(header_calls, ExpectedName(HeaderBlock)))
          /\ (/\ _settings.on_read_file_header_handler \in {"none", "empty"}
              /\ ~scenario.exists_throws) =>
                 /\ generated'.file_name = ExpectedName(HeaderBlock)
                 /\ generated'.path =
                        FirstFree(ExpectedName(HeaderBlock), DOMAIN fs)]_vars

\* the block filename="a"b" was parsed: the file a"b is open in the output
\* directory
C29_Witness ==
    /\ generated.file_name = NAME_Q
    /\ _file.is_open
    /\ _file.path = PathJoin(OUTPUT_DIRECTORY, NAME_Q)
    /\ _file.path \in DOMAIN fs

\* the buffer is full and the bytes it holds do not contain the boundary
FullWithoutBoundary ==
    /\ BufferSize(_buffer_storage, _settings.packets_size) = _settings.packets_size
    /\ Find(Take(_buffer_storage, _settings.packets_size), _boundary) = 0

\* C23: when the buffer reaches packets_size without the boundary during the
\* read of the first boundary, the read ends with not_found and download ends
\* with not_found and an empty list of paths; no file is created or changed
C23_FirstBoundaryNotFound ==
    /\ (pc = "completed" /\ handler = "first_boundary" /\ FullWithoutBoundary) =>
          error_code = "not_found"
    /\ (Done /\ handler = "first_boundary" /\ FullWithoutBoundary) =>
          /\ result = [error_code |-> "not_found", paths |-> <<>>]
          /\ fs = [p \in scenario.files |-> OLD]
          /\ _output_file_paths = <<>>
          /\ ~_file.is_open
          /\ header_calls = <<>>

\* the boundary of the content type is not the one of the body: download
\* returned after the buffer filled up during the read of the first boundary
C23_Witness ==
    /\ Done
    /\ handler = "first_boundary"
    /\ FullWithoutBoundary
    /\ Len(_buffer_storage) = _settings.packets_size
    /\ result.error_code = "not_found"

\* the state of the parser: Idle before download is called, then the step
\* the pending read completes into, Done or Error once download has ended
State ==
    IF pc = "start" THEN "Idle"
    ELSE IF pc = "done"
    THEN (IF result.error_code = "ok" THEN "Done" ELSE "Error")
    ELSE CASE handler = "first_boundary" -> "AwaitFirstBoundary"
           [] handler = "file_header"    -> "Header"
           [] handler = "file_body"      -> "Body"

\* the transitions a step of the parser may take
Transitions ==
    {<<"Idle", "AwaitFirstBoundary">>, <<"AwaitFirstBoundary", "Header">>,
     <<"Header", "Body">>, <<"Body", "Body">>, <<"Body", "Header">>,
     <<"Body", "Done">>}
        \cup {<<from, "Error">> :
                 from \in {"Idle", "AwaitFirstBoundary", "Header", "Body"}}

\* C25: a step of the parser takes one of the transitions AwaitFirstBoundary
\* to Header, Header to Body, Body to Body on a cap hit, Body to Header, Body
\* to Done and any state to Error; a read_some leaves the state as it is; after
\* Done or Error nothing changes any more, no read is pending and no file is
\* open; Done is entered from Body only
C25_Transitions ==
    [][/\ trace' # trace => <<State, State'>> \in Transitions
       /\ trace' = trace => State' = State
       /\ (trace' # trace /\ State = "Body" /\ State' = "Body") =>
             IsCapHit(scenario.mode, error_code)
       /\ (State' = "Done" /\ State # "Done") => State = "Body"
       /\ State \in {"Done", "Error"} => UNCHANGED vars
       /\ State' \in {"Done", "Error"} => (pending' = 0 /\ ~_file'.is_open)]_vars

\* a download went from Body to Body on a cap hit, then to Header for a
\* second part and ended in Done
C25_Witness ==
    /\ State = "Done"
    /\ Len(completed) = 2
    /\ \E i \in 1..(Len(trace) - 3) :
          /\ trace[i] = "file_body" /\ trace[i + 1] = "write"
          /\ trace[i + 2] = "read_until" /\ trace[i + 3] = "file_body"

\* the closing boundary of a part was matched and the body step is due
BoundaryMatched == pc = "completed" /\ handler = "file_body" /\ error_code = "ok"

\* the bytes of the body behind the matched boundary: those in the buffer,
\* then those the stream still holds
BehindBoundary == Drop(_buffer_storage, bytes_transferred) \o _stream

\* C26: the body step on a matched boundary ends the download without error
\* exactly when the bytes of the body behind the boundary begin with "--"
\* CR LF, buffered or not and followed by more bytes or not, and reads the
\* next header in every other case
C26_EpilogueDetection ==
    [][BoundaryMatched =>
          IF Take(BehindBoundary, 4) = EPILOGUE
          THEN State' = "Done"
          ELSE State' = "Header"]_vars

\* C28: whenever the boundary is matched during the body read, also after a
\* forced flush and for an empty part, the matched length is at least the
\* length of the boundary plus 4, so that matched length - boundary length - 4,
\* the number of bytes the body step writes, is not negative
C28_WriteLengthNotNegative ==
    BoundaryMatched => bytes_transferred >= Len(_boundary) + 4

\* the body read ended at the cap and the body step is due
CapHitInBody == pc = "completed" /\ handler = "file_body" /\ error_code = "not_found"

\* the number of bytes a forced flush moves: what the buffer holds less the
\* length of the boundary
FlushLength == BufferSize(_buffer_storage, _settings.packets_size) - Len(_boundary)

C30_NoBytesLost ==
    (Done /\ reference # NoReference /\ scenario.leftover > 0) =>
        /\ result = reference.result
        /\ fs = reference.fs

\* C24: two downloaders on two threads, each given a part named a.t for the
\* same output directory, open two different paths in every interleaving of
\* their existence checks and opens, and the file of each holds the data of
\* its own part once it has written it
C24_SeparateInstances ==
    \A i, j \in 1..2 :
        (i # j /\ threads[i].pc \in {"body", "done"}
               /\ threads[j].pc \in {"body", "done"}) =>
            /\ threads[i]._file_path # threads[j]._file_path
            /\ threads[i].pc = "done" =>
                  /\ threads[i]._file_path \in DOMAIN fs
                  /\ fs[threads[i]._file_path] = scenario.parts[i].data

\* the error codes a read_some of the stream ends with
TransportErrors == {"eof", "connection_reset", "timed_out"}

\* a read ended with an error of the stream and its completion step is due
TransportErrorRead == pc = "completed" /\ error_code \in TransportErrors

\* C31: an error the stream reports during the read of the first boundary, of
\* a header or of a body is the error code download ends with: the step that
\* follows the read returns it unchanged
C31_TransportErrorVerbatim ==
    [][TransportErrorRead =>
          /\ pc' = "done"
          /\ result'.error_code = error_code
          /\ error_code' = error_code]_vars

\* the read of the second part's body timed out after the first part was
\* completed: async_download ended with that error
C31_Witness ==
    /\ Done
    /\ result.error_code = "timed_out"
    /\ handler = "file_body"
    /\ Len(completed) = 1
    /\ injected

\* the body read ended with an error other than the cap and the body step
\* will abort the file that is open
AbortDue ==
    /\ pc = "completed"
    /\ handler = "file_body"
    /\ error_code \notin {"ok", "not_found"}

\* C32: when the removal of the file fails during the abort of a part, the
\* failure is swallowed: download ends with the error of the read, the path
\* of the part is dropped from the list, and the file is closed and still
\* there
C32_RemoveFailureSwallowed ==
    [][(AbortDue /\ scenario.remove_throws) =>
          /\ pc' = "done"
          /\ result'.error_code = error_code
          /\ result'.paths = CompletedPaths
          /\ _output_file_paths' = CompletedPaths
          /\ Back(_output_file_paths) \notin Range(result'.paths)
          /\ ~_file'.is_open
          /\ fs' = fs]_vars

\* the connection was reset during the second part's body and the removal
\* of its file failed: download returned the reset and the first path, and
\* the second file is still on disk
C32_Witness ==
    /\ Done
    /\ scenario.remove_throws
    /\ result.error_code = "connection_reset"
    /\ handler = "file_body"
    /\ Len(result.paths) = 1
    /\ Cardinality(DOMAIN fs) = 2

\* C33: every download of a finite stream ends: download returns, or the
\* completion handler is called, after finitely many reads and flushes
C33_Termination == <>Done

\* the body step runs on a completed read and leaves the parser in Body: the
\* flush of a full buffer
FlushStep ==
    /\ pc = "completed"
    /\ handler = "file_body"
    /\ pc' # "done"
    /\ handler' = "file_body"

\* C34: at every flush of a full buffer the buffer holds at least as many
\* bytes as the boundary has, for every packets_size and boundary of the
\* scenarios: the count string size - boundary size of the write and of the
\* consume is not negative
C34_FlushCountNotNegative ==
    [][FlushStep =>
          /\ Len(_buffer_storage) - Len(_boundary) >= 0
          /\ BufferSize(_buffer_storage, _settings.packets_size) >= Len(_boundary)]_vars

\* a boundary as long as packets_size: the buffer was flushed with a count
\* of zero
C34_Witness ==
    /\ scenario \in TightCapScenarios
    /\ handler = "file_body"
    /\ Count("write") > 0
    /\ Len(_buffer_storage) = Len(_boundary)
    /\ Len(_boundary) = _settings.packets_size

\* the completion handler was called: it was given a result, and no read is
\* left pending
HandlerCalled == Done /\ result # NoResult /\ pending = 0

\* C35: every call of async_download leads to one call of the completion
\* handler, whatever path the parser takes, with no read left pending
C35_HandlerOnce == Async ~> HandlerCalled

\* C36: during an async_download the timeout is armed whenever a read is
\* under way or its completion is due, and it is disarmed when the
\* completion handler has been called, on every path that ends the download
C36_TimeoutDisarmed ==
    /\ (Async /\ pc \in {"reading", "completed"}) => timer = "armed"
    /\ (Async /\ Done) => timer = "never"
====
